---- MODULE Spec2Model ----
(***************************************************************************)
(* Model of the operator console of the Sheikah AI car: the virtual        *)
(* joystick, the speed slider and the keyboard adapter of controls.js      *)
(* (src/unnamed/part_002), the voice adapter of voice.js and callApi of    *)
(* main.js (src/unnamed/part_001), run in the page index.html              *)
(* (src/unnamed/part_003).  One action is one event handler, run to        *)
(* completion as the browser's event loop runs it.                         *)
(*                                                                         *)
(* Numbers.  Math.atan2 is modelled on the eight principal rays, where its *)
(* value in degrees is an exact integer; currentMovement.angle is kept in  *)
(* degrees.  currentMovement.distance is d / maxDistance with              *)
(* d = min(sqrt(dx^2 + dy^2), maxDistance); the model keeps the integer    *)
(* d^2, from which every comparison and rounding of the code is computed   *)
(* exactly.                                                                *)
(***************************************************************************)
EXTENDS Integers, Sequences, FiniteSets, Bags, TLC

\* ------------------------------------------------------------------ bounds
\* Motion Service requests that may await their response at once.
MaxInFlight == 2
\* Keys the operator holds down at once.
MaxHeld == 2

\* Pointer offsets (clientX - startX, clientY - startY) of the events tried.
Offsets == { <<0, 0>>, <<40, 0>>, <<30, 30>>, <<0, -30>>, <<-60, 0>> }
\* Values the operator gives the speed slider.
SliderValues == { 0, 50, 80 }
\* Keys tried, and the elements that may have the focus.
Keys == { "ArrowUp", "ArrowLeft", " ", "a" }
Targets == { "BODY", "INPUT" }
\* How a request to the Motion Service may end.
Outcomes == { "ok", "success_false", "http_error", "network_error", "bad_json" }

\* Pending auto-stop timers of the voice adapter.
MaxTimers == 2

\* ------------------------------------------------------- program constants
maxDistance == 50
sliderInitial == 50

Directions == { "forward", "backward", "left", "right", "stop" }
ArrowKeys == { "ArrowUp", "ArrowDown", "ArrowLeft", "ArrowRight" }
FormTags == { "INPUT", "TEXTAREA", "SELECT" }

VARIABLES
    isDragging,       \* controls.js: let isDragging
    currentMovement,  \* controls.js: let currentMovement of initMovementControls
    globalMovement,   \* the global currentMovement that setMovement assigns
    speedSlider,      \* value of #speed-slider
    controlButtons,   \* the page holds #forward-btn ... #stop-btn
    highlight,        \* the button updateButtonState highlighted last
    held,             \* keys the operator holds down
    focus,            \* tag of the element that has the focus
    pendingMovement,  \* requests to /movement awaiting their response
    lastCmd,          \* the last command handed to the Motion Service
    emitted,          \* the requests the last handler started
    last,             \* the last handler that ran
    isListening,      \* voice.js: let isListening
    recognitionTimeout, \* voice.js: the recognition timers that are pending
    voicePending,     \* utterances whose request to /voice awaits its response
    autoStopTimers,   \* pending timers of executeVoiceCommand
    destinationSelect, \* value of #destination-select
    destinationOptions, \* values of the options of #destination-select
    pendingNames,     \* names whose name_location request awaits its response
    pendingMap        \* other requests to /map awaiting their response

motionVars == << isDragging, currentMovement, globalMovement, speedSlider,
                 highlight, held, focus, pendingMovement, lastCmd >>
voiceVars == << isListening, recognitionTimeout, voicePending, autoStopTimers,
                destinationSelect, destinationOptions, pendingNames,
                pendingMap >>
vars == << motionVars, voiceVars, controlButtons, emitted, last >>

NoCmd == [direction |-> "none", speed |-> 0]
Cmd(direction, speed) == [direction |-> direction, speed |-> speed]
\* A request as callApi sends it: the endpoint and the JSON body's fields.
MovementRequest(direction, speed) ==
    [endpoint |-> "/movement", method |-> "POST", direction |-> direction,
     speed |-> speed, action |-> "", destination |-> ""]
MapRequest(method, action, destination) ==
    [endpoint |-> "/map", method |-> method, direction |-> "", speed |-> 0,
     action |-> action, destination |-> destination]
NameRequest(name) ==
    [endpoint |-> "/map", method |-> "POST", direction |-> "", speed |-> 0,
     action |-> "name_location", destination |-> "", name |-> name]
VoiceRequest(command) ==
    [endpoint |-> "/voice", method |-> "POST", direction |-> "", speed |-> 0,
     action |-> command, destination |-> ""]
\* The handler that ran: op and arg name it, threw: it ended in an exception,
\* prevented: it called preventDefault on its event.
Ran(op, arg, threw) ==
    [op |-> op, arg |-> arg, threw |-> threw, prevented |-> FALSE]
Prevented(ran) == [ran EXCEPT !.prevented = TRUE]

\* ------------------------------------------------------- pure computations
Min(a, b) == IF a <= b THEN a ELSE b

\* Math.atan2(deltaY, deltaX) * (180 / Math.PI) on the principal rays.
Atan2Deg(dy, dx) ==
    CASE dy = 0 /\ dx >= 0 -> 0
      [] dy = 0 /\ dx < 0 -> 180
      [] dx = 0 /\ dy > 0 -> 90
      [] dx = 0 /\ dy < 0 -> -90
      [] dy = dx /\ dx > 0 -> 45
      [] dy = dx /\ dx < 0 -> -135
      [] dy = -dx /\ dx > 0 -> -45
      [] dy = -dx /\ dx < 0 -> 135

\* The distance without Math.min, squared.
Distance2Unclamped(dx, dy) == dx * dx + dy * dy

\* min(sqrt(dx^2 + dy^2), maxDistance), squared.
Distance2(dx, dy) == Min(dx * dx + dy * dy, maxDistance * maxDistance)

\* The buckets as the comment above them describes them: forward from -45
\* to 45 degrees, right to 135, backward to -135, left to -45.
ClassifyAsCommented(angleDeg) ==
    IF angleDeg > -45 /\ angleDeg <= 45 THEN "forward"
    ELSE IF angleDeg > 45 /\ angleDeg <= 135 THEN "right"
    ELSE IF angleDeg > 135 \/ angleDeg <= -135 THEN "backward"
    ELSE "left"

\* The buckets closed at their lower edge and open at their upper edge.
ClassifyLowerEdgeInclusive(angleDeg) ==
    IF angleDeg >= -45 /\ angleDeg < 45 THEN "right"
    ELSE IF angleDeg >= 45 /\ angleDeg < 135 THEN "backward"
    ELSE IF angleDeg >= 135 \/ angleDeg < -135 THEN "left"
    ELSE "forward"

\* updateMovement: the angle's bucket.
Classify(angleDeg) ==
    IF angleDeg > -45 /\ angleDeg <= 45 THEN "right"
    ELSE IF angleDeg > 45 /\ angleDeg <= 135 THEN "backward"
    ELSE IF angleDeg > 135 \/ angleDeg <= -135 THEN "left"
    ELSE "forward"

\* Math.floor in the place of Math.round.
ScaledSpeedFloor(speed, d2) ==
    CHOOSE n \in 0 .. speed * (d2 \div (maxDistance * maxDistance) + 1) :
        /\ n * n * maxDistance * maxDistance <= speed * speed * d2
        /\ (n + 1) * (n + 1) * maxDistance * maxDistance > speed * speed * d2

\* Math.round(speed * distance) with distance = sqrt(d2) / maxDistance:
\* the largest n with n - 1/2 <= speed * sqrt(d2) / maxDistance.
ScaledSpeed(speed, d2) ==
    LET fits(n) == n = 0 \/ (2 * maxDistance * n - maxDistance)
                               * (2 * maxDistance * n - maxDistance)
                             <= 4 * speed * speed * d2
    IN  CHOOSE n \in 0 .. speed * (d2 \div (maxDistance * maxDistance) + 1) :
            fits(n) /\ ~fits(n + 1)

\* handleKeyDown: the switch on event.key.
KeyDirection(key) ==
    CASE key = "ArrowUp" -> "forward"
      [] key = "ArrowDown" -> "backward"
      [] key = "ArrowLeft" -> "left"
      [] key = "ArrowRight" -> "right"
      [] key = " " -> "stop"
      [] OTHER -> "none"

\* String.prototype.toLowerCase, letter by letter.
LowerOf(c) ==
    CASE c = "A" -> "a" [] c = "B" -> "b" [] c = "C" -> "c" [] c = "D" -> "d"
      [] c = "E" -> "e" [] c = "F" -> "f" [] c = "G" -> "g" [] c = "H" -> "h"
      [] c = "I" -> "i" [] c = "J" -> "j" [] c = "K" -> "k" [] c = "L" -> "l"
      [] c = "M" -> "m" [] c = "N" -> "n" [] c = "O" -> "o" [] c = "P" -> "p"
      [] c = "Q" -> "q" [] c = "R" -> "r" [] c = "S" -> "s" [] c = "T" -> "t"
      [] c = "U" -> "u" [] c = "V" -> "v" [] c = "W" -> "w" [] c = "X" -> "x"
      [] c = "Y" -> "y" [] c = "Z" -> "z" [] OTHER -> c

RECURSIVE toLowerCase(_)
toLowerCase(str) ==
    IF Len(str) = 0 THEN ""
    ELSE LowerOf(SubSeq(str, 1, 1)) \o toLowerCase(SubSeq(str, 2, Len(str)))

\* String.prototype.includes.
includes(str, sub) ==
    \E i \in 1 .. (Len(str) - Len(sub) + 1) :
        SubSeq(str, i, i + Len(sub) - 1) = sub

\* voice.js: the utterances the recognition timer draws from.
commands ==
    { "go forward", "turn left", "turn right", "stop", "go to the living room",
      "go to the kitchen", "go to the bedroom", "start mapping", "save the map",
      "what is your battery level" }

\* Utterances a recognition service may deliver to processVoiceCommand,
\* beyond the ten the placeholder timer draws from.
Utterances ==
    { "go to the kitchen", "go to the garage",
      "go to the kitchen and come back", "save the map", "start mapping",
      "load the map" }
\* What the operator types into #location-name.
LocationNames == { "Garage", "", "  " }
\* index.html: the options of #destination-select.
staticOptions == { "", "living-room", "kitchen", "bedroom" }

\* String.prototype.replace with a string pattern: the first occurrence only.
replace(str, pat, by) ==
    IF includes(str, pat)
    THEN LET i == CHOOSE j \in 1 .. (Len(str) - Len(pat) + 1) :
                     /\ SubSeq(str, j, j + Len(pat) - 1) = pat
                     /\ \A k \in 1 .. (j - 1) :
                           SubSeq(str, k, k + Len(pat) - 1) # pat
         IN  SubSeq(str, 1, i - 1) \o by \o SubSeq(str, i + Len(pat), Len(str))
    ELSE str

\* String.prototype.trim: the white space at both ends is dropped.
WhiteSpace == { " ", "\t", "\n" }
RECURSIVE trimStart(_)
trimStart(str) ==
    IF Len(str) > 0 /\ SubSeq(str, 1, 1) \in WhiteSpace
    THEN trimStart(SubSeq(str, 2, Len(str)))
    ELSE str
RECURSIVE trimEnd(_)
trimEnd(str) ==
    IF Len(str) > 0 /\ SubSeq(str, Len(str), Len(str)) \in WhiteSpace
    THEN trimEnd(SubSeq(str, 1, Len(str) - 1))
    ELSE str
trim(str) == trimEnd(trimStart(str))
\* nameLocation: locationName, for each text typed.
locationNameOf == [value \in LocationNames |-> trim(value)]

\* nameLocation: the value of the option it appends.
OptionValue(name) == replace(toLowerCase(name), " ", "-")
optionValueOf == [name \in LocationNames |-> OptionValue(name)]

\* executeVoiceCommand with the navigation rule tested before the movement
\* rules.
MatchRuleNavigationFirst(command) ==
    LET cmd == toLowerCase(command)
    IN  IF includes(cmd, "go to") THEN "navigate"
        ELSE IF includes(cmd, "forward") \/ includes(cmd, "ahead") THEN "forward"
        ELSE IF includes(cmd, "left") THEN "left"
        ELSE IF includes(cmd, "right") THEN "right"
        ELSE IF includes(cmd, "back") THEN "backward"
        ELSE IF includes(cmd, "stop") THEN "stop"
        ELSE IF includes(cmd, "start mapping") THEN "start-mapping"
        ELSE IF includes(cmd, "save map") \/ includes(cmd, "save the map")
             THEN "save-map"
        ELSE IF includes(cmd, "load map") \/ includes(cmd, "load the map")
             THEN "load-map"
        ELSE "none"

\* executeVoiceCommand treating an utterance that matches no keyword as a
\* navigation command.
MatchRuleUnmatchedNavigates(command) ==
    LET cmd == toLowerCase(command)
    IN  IF includes(cmd, "forward") \/ includes(cmd, "ahead") THEN "forward"
        ELSE IF includes(cmd, "left") THEN "left"
        ELSE IF includes(cmd, "right") THEN "right"
        ELSE IF includes(cmd, "back") THEN "backward"
        ELSE IF includes(cmd, "stop") THEN "stop"
        ELSE IF includes(cmd, "start mapping") THEN "start-mapping"
        ELSE IF includes(cmd, "save map") \/ includes(cmd, "save the map")
             THEN "save-map"
        ELSE IF includes(cmd, "load map") \/ includes(cmd, "load the map")
             THEN "load-map"
        ELSE "navigate"

\* executeVoiceCommand: the first branch of the if-else chain that matches.
MatchRule(command) ==
    LET cmd == toLowerCase(command)
    IN  IF includes(cmd, "forward") \/ includes(cmd, "ahead") THEN "forward"
        ELSE IF includes(cmd, "left") THEN "left"
        ELSE IF includes(cmd, "right") THEN "right"
        ELSE IF includes(cmd, "back") THEN "backward"
        ELSE IF includes(cmd, "stop") THEN "stop"
        ELSE IF includes(cmd, "go to") THEN "navigate"
        ELSE IF includes(cmd, "start mapping") THEN "start-mapping"
        ELSE IF includes(cmd, "save map") \/ includes(cmd, "save the map")
             THEN "save-map"
        ELSE IF includes(cmd, "load map") \/ includes(cmd, "load the map")
             THEN "load-map"
        ELSE "none"

\* executeVoiceCommand: the location the go-to branch finds ("" for none).
MatchLocation(command) ==
    LET cmd == toLowerCase(command)
    IN  IF includes(cmd, "living room") THEN "living-room"
        ELSE IF includes(cmd, "kitchen") THEN "kitchen"
        ELSE IF includes(cmd, "bedroom") THEN "bedroom"
        ELSE ""

\* The two matches of every utterance tried.
ruleOf == [command \in commands \cup Utterances |-> MatchRule(command)]
locationOf == [command \in commands \cup Utterances |-> MatchLocation(command)]
VoiceRule(command) == ruleOf[command]
VoiceDestination(command, selected) ==
    IF locationOf[command] # "" THEN locationOf[command] ELSE selected

\* ------------------------------------------------------------ construction
\* The state once every DOMContentLoaded listener has run, in a page that
\* holds the five control buttons or does not.
Loaded(buttons) ==
    /\ isDragging = FALSE
    /\ currentMovement = [angle |-> 0, distance |-> 0, speed |-> sliderInitial]
    /\ globalMovement = [defined |-> FALSE, direction |-> "none", speed |-> 0,
                         vector |-> FALSE]
    /\ speedSlider = sliderInitial
    /\ controlButtons = buttons
    /\ highlight = "none"
    /\ held = {}
    /\ focus = "BODY"
    /\ pendingMovement = 0
    /\ lastCmd = NoCmd
    /\ emitted = << >>
    /\ last = Ran("init", "", FALSE)
    /\ isListening = FALSE
    /\ recognitionTimeout = 0
    /\ voicePending = EmptyBag
    /\ autoStopTimers = 0
    /\ destinationSelect = ""
    /\ destinationOptions = staticOptions
    /\ pendingNames = EmptyBag
    /\ pendingMap = 0

\* The page as index.html ships it: the control panel holds the joystick
\* container and the speed slider, and no direction or Stop button.
Init == Loaded(FALSE)

\* What callApi's try block throws, "" for nothing: fetch rejects, the
\* status is not OK, or response.json() rejects on an unparsable body.
callApiThrown(outcome) ==
    CASE outcome = "network_error" -> "Failed to fetch"
      [] outcome = "http_error" -> "API call failed: 500"
      [] outcome = "bad_json" -> "Unexpected end of JSON input"
      [] OTHER -> ""

\* callApi with response.json() awaited after its try block.
callApiParsesOutsideTry(outcome) ==
    IF outcome = "bad_json"
    THEN [rejected |-> TRUE, success |-> FALSE, error |-> ""]
    ELSE IF callApiThrown(outcome) # ""
    THEN [rejected |-> FALSE, success |-> FALSE,
          error |-> callApiThrown(outcome)]
    ELSE [rejected |-> FALSE, success |-> outcome = "ok",
          error |-> IF outcome = "ok" THEN "" ELSE "refused"]

\* callApi, from the end of its fetch: whatever its try block throws ends in
\* its catch, which returns {success: false, error: error.message};
\* otherwise the parsed body is returned.  rejected: the promise callApi
\* returned was rejected.
callApi(outcome) ==
    IF callApiThrown(outcome) # ""
    THEN [rejected |-> FALSE, success |-> FALSE,
          error |-> callApiThrown(outcome)]
    ELSE [rejected |-> FALSE, success |-> outcome = "ok",
          error |-> IF outcome = "ok" THEN "" ELSE "refused"]

\* ----------------------------------------------------------------- helpers
\* sendMovementCommand up to its await: callApi has started the fetch.
InFlight ==
    pendingMovement + BagCardinality(voicePending) + pendingMap
      + BagCardinality(pendingNames)

\* sendMovementCommand started only once the request before it has its
\* response.
sendMovementCommandAwaiting(direction, speed) ==
    /\ pendingMovement = 0
    /\ InFlight < MaxInFlight
    /\ pendingMovement' = pendingMovement + 1
    /\ lastCmd' = Cmd(direction, speed)
    /\ emitted' = << MovementRequest(direction, speed) >>

\* sendMovementCommand leaving its request to a later task: the command is
\* recorded and counted, and no fetch is started before the handler returns.
sendMovementCommandDeferred(direction, speed) ==
    /\ InFlight < MaxInFlight
    /\ pendingMovement' = pendingMovement + 1
    /\ lastCmd' = Cmd(direction, speed)
    /\ emitted' = << >>

sendMovementCommand(direction, speed) ==
    /\ InFlight < MaxInFlight
    /\ pendingMovement' = pendingMovement + 1
    /\ lastCmd' = Cmd(direction, speed)
    /\ emitted' = << MovementRequest(direction, speed) >>

\* A handler that calls sendMovementCommand nowhere.
NoCommand ==
    /\ pendingMovement' = pendingMovement
    /\ lastCmd' = lastCmd
    /\ emitted' = << >>

\* updateButtonState: document.getElementById gives null for a button the
\* page does not hold, and btn.style of null throws a TypeError before any
\* style is written.
updateButtonState(activeDirection) ==
    highlight' = IF controlButtons THEN activeDirection ELSE highlight

\* updateMovement: classify the stored angle, scale the speed, send.
updateMovement(movement) ==
    sendMovementCommand(Classify(movement.angle),
                        ScaledSpeed(movement.speed, movement.distance))

\* setMovement giving way to the joystick while a drag is active.
setMovementUnlessDragging(direction) ==
    IF isDragging
    THEN NoCommand /\ UNCHANGED << globalMovement, highlight >>
    ELSE /\ globalMovement' = [defined |-> TRUE, direction |-> direction,
                               speed |-> speedSlider,
                               vector |-> (direction = "stop")]
         /\ sendMovementCommand(direction, speedSlider)
         /\ updateButtonState(direction)

\* setMovement scaling the speed by the joystick's stored distance.
setMovementScaled(direction) ==
    /\ globalMovement' = [defined |-> TRUE, direction |-> direction,
                          speed |-> speedSlider,
                          vector |-> (direction = "stop")]
    /\ sendMovementCommand(direction,
                           ScaledSpeed(speedSlider, currentMovement.distance))
    /\ updateButtonState(direction)

\* setMovement sending speed 0 with a stop, as handleEnd does.
setMovementStopsAtZero(direction) ==
    /\ globalMovement' = [defined |-> TRUE, direction |-> direction,
                          speed |-> speedSlider,
                          vector |-> (direction = "stop")]
    /\ sendMovementCommand(direction,
                           IF direction = "stop" THEN 0 ELSE speedSlider)
    /\ updateButtonState(direction)

\* setMovement: assigns the global currentMovement (the joystick's is a local
\* of initMovementControls, out of its scope), sends, highlights.
setMovement(direction) ==
    /\ globalMovement' = [defined |-> TRUE, direction |-> direction,
                          speed |-> speedSlider,
                          vector |-> (direction = "stop")]
    /\ sendMovementCommand(direction, speedSlider)
    /\ updateButtonState(direction)

\* ---------------------------------------------------------------- joystick
\* handleMove dispatching the movement stored before this event.
TrackSendsPrevious(off) ==
    /\ currentMovement' = [currentMovement EXCEPT
                              !.angle = Atan2Deg(off[2], off[1]),
                              !.distance = Distance2(off[1], off[2])]
    /\ updateMovement(currentMovement)

\* The body of handleMove once isDragging is known to hold.
Track(off) ==
    LET moved == [currentMovement EXCEPT
                     !.angle = Atan2Deg(off[2], off[1]),
                     !.distance = Distance2(off[1], off[2])]
    IN  /\ currentMovement' = moved
        /\ updateMovement(moved)

\* mousedown / touchstart on the joystick base.
handleStart(off) ==
    /\ isDragging' = TRUE
    /\ Track(off)
    /\ last' = Prevented(Ran("start", "", FALSE))
    /\ UNCHANGED << globalMovement, speedSlider, controlButtons, highlight, held, focus,
                    voiceVars >>

\* handleMove without its first line, if (!isDragging) return.
handleMoveUnguarded(off) ==
    /\ Track(off)
    /\ last' = Prevented(Ran("move", "", FALSE))
    /\ UNCHANGED << isDragging, globalMovement, speedSlider, controlButtons,
                    highlight, held, focus, voiceVars >>

\* mousemove / touchmove anywhere in the document.
handleMove(off) ==
    /\ IF isDragging
       THEN /\ Track(off)
            /\ last' = Prevented(Ran("move", "", FALSE))
       ELSE /\ NoCommand
            /\ last' = Ran("move", "ignored", FALSE)
            /\ UNCHANGED currentMovement
    /\ UNCHANGED << isDragging, globalMovement, speedSlider, controlButtons,
                    highlight, held, focus, voiceVars >>

\* handleEnd without the reset of currentMovement.
handleEndKeepsVector ==
    /\ IF isDragging
       THEN /\ isDragging' = FALSE
            /\ sendMovementCommand("stop", 0)
            /\ updateButtonState("stop")
            /\ last' = Ran("end", IF currentMovement.distance > 0
                                  THEN "deflected" ELSE "centred",
                           ~controlButtons)
            /\ UNCHANGED currentMovement
       ELSE /\ NoCommand
            /\ last' = Ran("end", "ignored", FALSE)
            /\ UNCHANGED << isDragging, currentMovement, highlight >>
    /\ UNCHANGED << globalMovement, speedSlider, controlButtons, held, focus,
                    voiceVars >>

\* handleEnd without its first line, if (!isDragging) return.
handleEndUnguarded ==
    /\ isDragging' = FALSE
    /\ currentMovement' = [angle |-> 0, distance |-> 0,
                           speed |-> currentMovement.speed]
    /\ sendMovementCommand("stop", 0)
    /\ updateButtonState("stop")
    /\ last' = Ran("end", IF ~isDragging THEN "ignored"
                          ELSE IF currentMovement.distance > 0
                          THEN "deflected" ELSE "centred",
                   ~controlButtons)
    /\ UNCHANGED << globalMovement, speedSlider, controlButtons, held, focus,
                    voiceVars >>

\* handleEnd sending its stop at the slider's speed, as setMovement does.
handleEndCruiseSpeed ==
    /\ IF isDragging
       THEN /\ isDragging' = FALSE
            /\ currentMovement' = [angle |-> 0, distance |-> 0,
                                   speed |-> currentMovement.speed]
            /\ sendMovementCommand("stop", currentMovement.speed)
            /\ updateButtonState("stop")
            /\ last' = Ran("end", IF currentMovement.distance > 0
                                  THEN "deflected" ELSE "centred",
                           ~controlButtons)
       ELSE /\ NoCommand
            /\ last' = Ran("end", "ignored", FALSE)
            /\ UNCHANGED << isDragging, currentMovement, highlight >>
    /\ UNCHANGED << globalMovement, speedSlider, controlButtons, held, focus,
                    voiceVars >>

\* handleEnd resetting the stored speed to its initial value along with the
\* angle and the distance.
handleEndResetsSpeed ==
    /\ IF isDragging
       THEN /\ isDragging' = FALSE
            /\ currentMovement' = [angle |-> 0, distance |-> 0,
                                   speed |-> sliderInitial]
            /\ sendMovementCommand("stop", 0)
            /\ updateButtonState("stop")
            /\ last' = Ran("end", IF currentMovement.distance > 0
                                  THEN "deflected" ELSE "centred",
                           ~controlButtons)
       ELSE /\ NoCommand
            /\ last' = Ran("end", "ignored", FALSE)
            /\ UNCHANGED << isDragging, currentMovement, highlight >>
    /\ UNCHANGED << globalMovement, speedSlider, controlButtons, held, focus,
                    voiceVars >>

\* mouseup / touchend anywhere in the document.
handleEnd ==
    /\ IF isDragging
       THEN /\ isDragging' = FALSE
            /\ currentMovement' = [angle |-> 0, distance |-> 0,
                                   speed |-> currentMovement.speed]
            /\ sendMovementCommand("stop", 0)
            /\ updateButtonState("stop")
            /\ last' = Ran("end", IF currentMovement.distance > 0
                                  THEN "deflected" ELSE "centred",
                           ~controlButtons)
       ELSE /\ NoCommand
            /\ last' = Ran("end", "ignored", FALSE)
            /\ UNCHANGED << isDragging, currentMovement, highlight >>
    /\ UNCHANGED << globalMovement, speedSlider, controlButtons, held, focus,
                    voiceVars >>

\* touchcancel, or the pointer leaving the window with no mouseup delivered:
\* initMovementControls registers mousedown, mousemove, mouseup, touchstart,
\* touchmove and touchend, and no listener for the loss of the gesture.
touchcancel ==
    /\ NoCommand
    /\ last' = Ran("touchcancel", IF isDragging THEN "" ELSE "ignored", FALSE)
    /\ UNCHANGED << isDragging, currentMovement, globalMovement, speedSlider,
                    controlButtons, highlight, held, focus, voiceVars >>

\* The slider's listener without its test of currentMovement.distance.
SpeedSliderInputAlwaysSends(value) ==
    LET moved == [currentMovement EXCEPT !.speed = value]
    IN  /\ value # speedSlider
        /\ speedSlider' = value
        /\ currentMovement' = moved
        /\ updateMovement(moved)
        /\ last' = Ran("slider", "", FALSE)
        /\ UNCHANGED << isDragging, globalMovement, controlButtons, highlight,
                        held, focus, voiceVars >>

\* The slider's listener testing isDragging in the place of
\* currentMovement.distance.
SpeedSliderInputWhileDragging(value) ==
    LET moved == [currentMovement EXCEPT !.speed = value]
    IN  /\ value # speedSlider
        /\ speedSlider' = value
        /\ currentMovement' = moved
        /\ IF isDragging THEN updateMovement(moved) ELSE NoCommand
        /\ last' = Ran("slider", "", FALSE)
        /\ UNCHANGED << isDragging, globalMovement, controlButtons, highlight,
                        held, focus, voiceVars >>

\* input on #speed-slider: the browser fires it when the value changes.
SpeedSliderInput(value) ==
    LET moved == [currentMovement EXCEPT !.speed = value]
    IN  /\ value # speedSlider
        /\ speedSlider' = value
        /\ currentMovement' = moved
        /\ IF moved.distance > 0 THEN updateMovement(moved) ELSE NoCommand
        /\ last' = Ran("slider", "", FALSE)
        /\ UNCHANGED << isDragging, globalMovement, controlButtons, highlight,
                        held, focus, voiceVars >>

\* ---------------------------------------------------------------- keyboard
\* handleKeyUp stopping on the key-up of the space key as well.
handleKeyUpStopsOnSpace(key) ==
    /\ key \in held
    /\ held' = held \ {key}
    /\ IF focus \notin FormTags /\ key \in ArrowKeys \cup { " " }
       THEN /\ setMovement("stop")
            /\ last' = Ran("keyup", key, ~controlButtons)
       ELSE /\ NoCommand
            /\ last' = Ran("keyup", "ignored", FALSE)
            /\ UNCHANGED << globalMovement, highlight >>
    /\ UNCHANGED << isDragging, currentMovement, speedSlider, controlButtons,
                    focus, voiceVars >>

\* keydown: a first press, or the auto-repeat of a key still held.
\* event.preventDefault() is called for the arrow keys and the space key
\* before event.target is looked at.
handleKeyDown(key) ==
    /\ key \in held \/ Cardinality(held) < MaxHeld
    /\ held' = held \cup {key}
    /\ IF focus \notin FormTags /\ KeyDirection(key) # "none"
       THEN /\ setMovement(KeyDirection(key))
            /\ last' = Prevented(Ran("keydown", key, ~controlButtons))
       ELSE /\ NoCommand
            /\ last' = IF key \in ArrowKeys \cup { " " }
                       THEN Prevented(Ran("keydown", "ignored", FALSE))
                       ELSE Ran("keydown", "ignored", FALSE)
            /\ UNCHANGED << globalMovement, highlight >>
    /\ UNCHANGED << isDragging, currentMovement, speedSlider, controlButtons,
                    focus, voiceVars >>

\* keyup of a key that was down.
handleKeyUp(key) ==
    /\ key \in held
    /\ held' = held \ {key}
    /\ IF focus \notin FormTags /\ key \in ArrowKeys
       THEN /\ setMovement("stop")
            /\ last' = Ran("keyup", key, ~controlButtons)
       ELSE /\ NoCommand
            /\ last' = Ran("keyup", "ignored", FALSE)
            /\ UNCHANGED << globalMovement, highlight >>
    /\ UNCHANGED << isDragging, currentMovement, speedSlider, controlButtons,
                    focus, voiceVars >>

\* The focus moves to another element; key events have it as their target.
FocusChange(tag) ==
    /\ tag # focus
    /\ focus' = tag
    /\ NoCommand
    /\ last' = Ran("focus", "", FALSE)
    /\ UNCHANGED << isDragging, currentMovement, globalMovement, speedSlider,
                    controlButtons, highlight, held, voiceVars >>

\* ----------------------------------------------------------- Motion Service
\* sendMovementCommand resending the command when the call failed.
MovementResponseRetries(outcome) ==
    /\ pendingMovement > 0
    /\ pendingMovement' = IF callApi(outcome).success
                          THEN pendingMovement - 1 ELSE pendingMovement
    /\ emitted' = IF callApi(outcome).success THEN << >>
                  ELSE << MovementRequest(lastCmd.direction, lastCmd.speed) >>
    /\ last' = Ran("response", IF callApi(outcome).success THEN "ok" ELSE "error",
                   FALSE)
    /\ UNCHANGED << isDragging, currentMovement, globalMovement, speedSlider,
                    controlButtons, highlight, held, focus, lastCmd, voiceVars >>

\* sendMovementCommand ending the drag and clearing the joystick's vector
\* when the call failed.
MovementResponseResetsOnFailure(outcome) ==
    /\ pendingMovement > 0
    /\ pendingMovement' = pendingMovement - 1
    /\ emitted' = << >>
    /\ last' = Ran("response", IF callApi(outcome).success THEN "ok" ELSE "error",
                   callApi(outcome).rejected)
    /\ isDragging' = (isDragging /\ callApi(outcome).success)
    /\ currentMovement' = IF callApi(outcome).success THEN currentMovement
                          ELSE [currentMovement EXCEPT !.angle = 0,
                                                       !.distance = 0]
    /\ UNCHANGED << globalMovement, speedSlider, controlButtons, highlight,
                    held, focus, lastCmd, voiceVars >>

\* The rest of sendMovementCommand, when callApi returns: the result is
\* logged, console.log on success and console.error otherwise.
MovementResponse(outcome) ==
    /\ pendingMovement > 0
    /\ pendingMovement' = pendingMovement - 1
    /\ emitted' = << >>
    /\ last' = Ran("response", IF callApi(outcome).success THEN "ok" ELSE "error",
                   callApi(outcome).rejected)
    /\ UNCHANGED << isDragging, currentMovement, globalMovement, speedSlider,
                    controlButtons, highlight, held, focus, lastCmd, voiceVars >>

\* ------------------------------------------------------------------ voice
\* stopVoiceRecognition leaving the recognition timer to fire.
toggleVoiceRecognitionKeepsTimer ==
    /\ isListening' = ~isListening
    /\ recognitionTimeout' = IF isListening THEN recognitionTimeout
                             ELSE recognitionTimeout + 1
    /\ NoCommand
    /\ last' = Ran("voice-click", "", FALSE)
    /\ UNCHANGED << isDragging, currentMovement, globalMovement, speedSlider,
                    controlButtons, highlight, held, focus, voicePending,
                    autoStopTimers, destinationSelect, destinationOptions,
                    pendingNames, pendingMap >>

\* click on #voice-btn: toggleVoiceRecognition.  startVoiceRecognition sets
\* a recognition timer and keeps its handle; stopVoiceRecognition clears the
\* timer of that handle, the one set last.
toggleVoiceRecognition ==
    /\ isListening' = ~isListening
    /\ recognitionTimeout' = IF isListening
                             THEN (IF recognitionTimeout > 0
                                   THEN recognitionTimeout - 1 ELSE 0)
                             ELSE recognitionTimeout + 1
    /\ NoCommand
    /\ last' = Ran("voice-click", "", FALSE)
    /\ UNCHANGED << isDragging, currentMovement, globalMovement, speedSlider,
                    controlButtons, highlight, held, focus, voicePending,
                    autoStopTimers, destinationSelect, destinationOptions,
                    pendingNames, pendingMap >>

\* A recognition timer fires, the one set first: processVoiceCommand(command)
\* up to its await, then stopVoiceRecognition, which clears the timer set
\* last if that is another one.
RecognitionTimer(command) ==
    /\ recognitionTimeout > 0
    /\ InFlight < MaxInFlight
    /\ voicePending' = voicePending (+) SetToBag({command})
    /\ isListening' = FALSE
    /\ recognitionTimeout' = IF recognitionTimeout >= 2
                             THEN recognitionTimeout - 2 ELSE 0
    /\ emitted' = << VoiceRequest(command) >>
    /\ last' = Ran("voice-timer", "", FALSE)
    /\ UNCHANGED << isDragging, currentMovement, globalMovement, speedSlider,
                    controlButtons, highlight, held, focus, pendingMovement, lastCmd,
                    autoStopTimers, destinationSelect, destinationOptions,
                    pendingNames, pendingMap >>

\* click() on a direction button or on the Stop button: no script of the
\* page registers a click listener on them.
controlButtonClick(direction) ==
    /\ NoCommand
    /\ UNCHANGED << globalMovement, highlight >>

\* The operator presses a direction button or the Stop button of a page
\* that holds them.
controlButtonPress(direction) ==
    /\ controlButtons
    /\ controlButtonClick(direction)
    /\ last' = Ran("button", direction, FALSE)
    /\ UNCHANGED << isDragging, currentMovement, speedSlider, controlButtons,
                    held, focus, voiceVars >>

\* click on #navigate-btn: startNavigation up to its await.
startNavigation(destination) ==
    IF destination # ""
    THEN /\ pendingMap' = pendingMap + 1
         /\ emitted' = << MapRequest("POST", "navigate", destination) >>
    ELSE /\ pendingMap' = pendingMap
         /\ emitted' = << >>

\* click on #start-mapping: toggleMapping reads isMapping, a local of
\* initMap that is out of its scope, and throws a ReferenceError inside the
\* listener before anything is sent.
toggleMapping ==
    /\ pendingMap' = pendingMap
    /\ emitted' = << >>

\* click on #save-map: saveMap up to its await.
saveMap ==
    /\ pendingMap' = pendingMap + 1
    /\ emitted' = << MapRequest("POST", "save", "") >>

\* click on #load-map: loadMap up to its await.
loadMap ==
    /\ pendingMap' = pendingMap + 1
    /\ emitted' = << MapRequest("GET", "", "") >>

\* executeVoiceCommand.  getElementById gives null for a button the page
\* does not hold; .click() of null throws, inside processVoiceCommand's try.
executeVoiceCommand(command) ==
    LET rule == VoiceRule(command)
        selected == VoiceDestination(command, destinationSelect)
    IN  IF rule \in Directions
        THEN /\ IF controlButtons
                THEN /\ controlButtonClick(rule)
                     /\ autoStopTimers < MaxTimers \/ rule = "stop"
                     /\ autoStopTimers' = IF rule = "stop" THEN autoStopTimers
                                          ELSE autoStopTimers + 1
                ELSE /\ NoCommand
                     /\ UNCHANGED << globalMovement, highlight, autoStopTimers >>
             /\ last' = Ran("voice-execute", rule, ~controlButtons)
             /\ UNCHANGED << destinationSelect, pendingMap >>
        ELSE /\ CASE rule = "navigate" ->
                      /\ destinationSelect' = selected
                      /\ startNavigation(selected)
                   [] rule = "start-mapping" ->
                      toggleMapping /\ UNCHANGED destinationSelect
                   [] rule = "save-map" -> saveMap /\ UNCHANGED destinationSelect
                   [] rule = "load-map" -> loadMap /\ UNCHANGED destinationSelect
                   [] OTHER ->
                      /\ UNCHANGED << destinationSelect, pendingMap >>
                      /\ emitted' = << >>
             /\ last' = Ran("voice-execute", rule, FALSE)
             /\ UNCHANGED << globalMovement, highlight, autoStopTimers,
                             pendingMovement, lastCmd >>

\* The rest of processVoiceCommand, when callApi returns for a pending
\* utterance: the command is executed only if response.success.
VoiceResponse(command, outcome) ==
    /\ BagIn(command, voicePending)
    /\ voicePending' = voicePending (-) SetToBag({command})
    /\ IF callApi(outcome).success
       THEN executeVoiceCommand(command)
       ELSE /\ NoCommand
            /\ last' = Ran("voice-response", "error", callApi(outcome).rejected)
            /\ UNCHANGED << globalMovement, highlight, autoStopTimers,
                            destinationSelect, pendingMap >>
    /\ UNCHANGED << isDragging, currentMovement, speedSlider, controlButtons,
                    held, focus, isListening, recognitionTimeout,
                    destinationOptions, pendingNames >>

\* An auto-stop timer of executeVoiceCommand fires: click() on #stop-btn.
AutoStopTimer ==
    /\ autoStopTimers > 0
    /\ autoStopTimers' = autoStopTimers - 1
    /\ controlButtonClick("stop")
    /\ last' = Ran("auto-stop", "", FALSE)
    /\ UNCHANGED << isDragging, currentMovement, speedSlider, controlButtons,
                    held, focus, isListening, recognitionTimeout, voicePending,
                    destinationSelect, destinationOptions, pendingNames,
                    pendingMap >>

\* A request to /map completes: its result is logged.
MapResponse(outcome) ==
    /\ pendingMap > 0
    /\ pendingMap' = pendingMap - 1
    /\ pendingMovement' = pendingMovement
    /\ lastCmd' = lastCmd
    /\ emitted' = << >>
    /\ last' = Ran("map-response",
                   IF callApi(outcome).success THEN "ok" ELSE "error",
                   callApi(outcome).rejected)
    /\ UNCHANGED << isDragging, currentMovement, globalMovement, speedSlider,
                    controlButtons, highlight, held, focus, isListening,
                    recognitionTimeout, voicePending, autoStopTimers,
                    destinationSelect, destinationOptions, pendingNames >>

\* ---------------------------------------------------------------- map panel
\* The operator picks an option of #destination-select.
selectDestination(value) ==
    /\ value \in destinationOptions
    /\ value # destinationSelect
    /\ destinationSelect' = value
    /\ NoCommand
    /\ last' = Ran("select", "", FALSE)
    /\ UNCHANGED << isDragging, currentMovement, globalMovement, speedSlider,
                    controlButtons, highlight, held, focus, isListening,
                    recognitionTimeout, voicePending, autoStopTimers,
                    destinationOptions, pendingNames, pendingMap >>

\* click on #navigate-btn by the operator.
navigateClick ==
    /\ InFlight < MaxInFlight
    /\ startNavigation(destinationSelect)
    /\ last' = Ran("navigate-click",
                   IF destinationSelect = "" THEN "ignored" ELSE "", FALSE)
    /\ UNCHANGED << isDragging, currentMovement, globalMovement, speedSlider,
                    controlButtons, highlight, held, focus, pendingMovement,
                    lastCmd, isListening, recognitionTimeout, voicePending,
                    autoStopTimers, destinationSelect, destinationOptions,
                    pendingNames >>

\* nameLocation testing the text of #location-name as it was typed.
nameLocationUntrimmed(value) ==
    /\ InFlight < MaxInFlight
    /\ IF value # ""
       THEN /\ pendingNames' = pendingNames (+) SetToBag({value})
            /\ emitted' = << NameRequest(value) >>
       ELSE /\ pendingNames' = pendingNames
            /\ emitted' = << >>
    /\ last' = Ran("name", value, FALSE)
    /\ UNCHANGED << isDragging, currentMovement, globalMovement, speedSlider,
                    controlButtons, highlight, held, focus, pendingMovement,
                    lastCmd, isListening, recognitionTimeout, voicePending,
                    autoStopTimers, destinationSelect, destinationOptions,
                    pendingMap >>

\* click on #name-location with value typed into #location-name:
\* nameLocation up to its await.  locationName is the text trimmed.
nameLocation(value) ==
    LET locationName == locationNameOf[value]
    IN  /\ InFlight < MaxInFlight
        /\ IF locationName # ""
           THEN /\ pendingNames' = pendingNames (+) SetToBag({locationName})
                /\ emitted' = << NameRequest(locationName) >>
           ELSE /\ pendingNames' = pendingNames
                /\ emitted' = << >>
        /\ last' = Ran("name", value, FALSE)
        /\ UNCHANGED << isDragging, currentMovement, globalMovement,
                        speedSlider, controlButtons, highlight, held, focus,
                        pendingMovement, lastCmd, isListening,
                        recognitionTimeout, voicePending, autoStopTimers,
                        destinationSelect, destinationOptions, pendingMap >>

\* The rest of nameLocation, when callApi returns: on success an option is
\* appended to #destination-select.
NameLocationResponse(name, outcome) ==
    /\ BagIn(name, pendingNames)
    /\ pendingNames' = pendingNames (-) SetToBag({name})
    /\ destinationOptions' = IF callApi(outcome).success
                             THEN destinationOptions \cup {optionValueOf[name]}
                             ELSE destinationOptions
    /\ NoCommand
    /\ last' = Ran("name-response",
                   IF callApi(outcome).success THEN "ok" ELSE "error",
                   callApi(outcome).rejected)
    /\ UNCHANGED << isDragging, currentMovement, globalMovement, speedSlider,
                    controlButtons, highlight, held, focus, isListening,
                    recognitionTimeout, voicePending, autoStopTimers,
                    destinationSelect, pendingMap >>

\* ---------------------------------------------------------- specifications
\* The motion adapters alone: joystick, slider, keyboard, Motion Service.
Next ==
    \/ \E off \in Offsets : handleStart(off)
    \/ \E off \in Offsets : handleMove(off)
    \/ handleEnd
    \/ \E value \in SliderValues : SpeedSliderInput(value)
    \/ \E key \in Keys : handleKeyDown(key)
    \/ \E key \in Keys : handleKeyUp(key)
    \/ \E tag \in Targets : FocusChange(tag)
    \/ \E outcome \in Outcomes : MovementResponse(outcome)

Spec == Init /\ [][Next]_vars

\* Inputs of the whole console: every adapter, on fewer offsets, keys and
\* utterances.
ConsoleOffsets == { <<40, 0>>, <<-60, 0>> }
ConsoleKeys == { "ArrowLeft", " " }
ConsoleSliderValues == { 50, 100 }
ConsoleCommands ==
    { "turn left", "stop", "go to the kitchen", "what is your battery level" }

ConsoleNext ==
    \/ \E off \in ConsoleOffsets : handleStart(off)
    \/ \E off \in ConsoleOffsets : handleMove(off)
    \/ handleEnd
    \/ \E value \in ConsoleSliderValues : SpeedSliderInput(value)
    \/ \E key \in ConsoleKeys : handleKeyDown(key)
    \/ \E key \in ConsoleKeys : handleKeyUp(key)
    \/ \E outcome \in Outcomes : MovementResponse(outcome)
    \/ toggleVoiceRecognition
    \/ \E command \in ConsoleCommands : RecognitionTimer(command)
    \/ \E command \in ConsoleCommands, outcome \in Outcomes :
           VoiceResponse(command, outcome)
    \/ \E outcome \in Outcomes : MapResponse(outcome)

ConsoleSpec == Init /\ [][ConsoleNext]_vars

\* The page the scripts address: with the five buttons #forward-btn,
\* #backward-btn, #left-btn, #right-btn and #stop-btn of updateButtonState.
ButtonsInit == Loaded(TRUE)

ButtonsNext == ConsoleNext \/ AutoStopTimer

ButtonsSpec == ButtonsInit /\ [][ButtonsNext]_vars

\* The keyboard adapter on every key it knows and one it does not, with a
\* drag and the slider beside it.
KeyboardKeys == ArrowKeys \cup { " ", "a" }
KeyboardOffsets == { << 40, 0 >> }
KeyboardSliderValues == { 50, 80 }

KeyboardNext ==
    \/ \E key \in KeyboardKeys : handleKeyDown(key)
    \/ \E key \in KeyboardKeys : handleKeyUp(key)
    \/ \E tag \in Targets : FocusChange(tag)
    \/ \E off \in KeyboardOffsets : handleStart(off)
    \/ handleEnd
    \/ \E value \in KeyboardSliderValues : SpeedSliderInput(value)
    \/ \E outcome \in Outcomes : MovementResponse(outcome)

KeyboardSpec == Init /\ [][KeyboardNext]_vars

\* The motion adapters in the page that holds the five buttons, with the
\* operator pressing them.
PanelNext ==
    \/ \E off \in ConsoleOffsets : handleStart(off)
    \/ \E off \in ConsoleOffsets : handleMove(off)
    \/ handleEnd
    \/ \E value \in ConsoleSliderValues : SpeedSliderInput(value)
    \/ \E key \in ConsoleKeys : handleKeyDown(key)
    \/ \E key \in ConsoleKeys : handleKeyUp(key)
    \/ \E d \in Directions : controlButtonPress(d)
    \/ \E outcome \in Outcomes : MovementResponse(outcome)

PanelSpec == ButtonsInit /\ [][PanelNext]_vars

\* The voice adapter and the map panel, with a recognition service that
\* delivers the utterances of Utterances to processVoiceCommand.
VoiceNext ==
    \/ toggleVoiceRecognition
    \/ \E command \in Utterances : RecognitionTimer(command)
    \/ \E command \in Utterances, outcome \in Outcomes :
           VoiceResponse(command, outcome)
    \/ \E value \in staticOptions \cup { optionValueOf[n] : n \in LocationNames } :
           selectDestination(value)
    \/ navigateClick
    \/ \E name \in LocationNames : nameLocation(name)
    \/ \E name \in LocationNames, outcome \in Outcomes :
           NameLocationResponse(name, outcome)
    \/ \E outcome \in Outcomes : MapResponse(outcome)

VoiceSpec == Init /\ [][VoiceNext]_vars

\* The joystick and the slider alone, on offsets along the eight principal
\* rays, at the centre and beyond the radius.
JoystickOffsets ==
    { << 0, 0 >>, << 40, 0 >>, << 30, 30 >>, << 0, 30 >>, << -30, 30 >>,
      << -60, 0 >>, << -30, -30 >>, << 0, -30 >>, << 30, -30 >> }
JoystickSliderValues == { 0, 50, 80, 100 }

JoystickNext ==
    \/ \E off \in JoystickOffsets : handleStart(off)
    \/ \E off \in JoystickOffsets : handleMove(off)
    \/ handleEnd
    \/ \E value \in JoystickSliderValues : SpeedSliderInput(value)
    \/ \E outcome \in Outcomes : MovementResponse(outcome)

JoystickSpec == Init /\ [][JoystickNext]_vars

\* The joystick with gestures that the browser takes away: a touch that is
\* cancelled, a pointer that leaves with no release delivered.
GestureNext == JoystickNext \/ touchcancel

GestureSpec == Init /\ [][GestureNext]_vars

\* Every adapter that touches the motion state, in the page that holds the
\* five buttons: the joystick, the slider, the keyboard, the buttons, the
\* voice adapter with its auto-stop timer, and the responses.
CruiseOffsets == { << 40, 0 >> }
CruiseKeys == { "ArrowLeft" }
CruiseCommands == { "go forward", "stop" }

CruiseNext ==
    \/ \E off \in CruiseOffsets : handleStart(off)
    \/ \E off \in CruiseOffsets : handleMove(off)
    \/ handleEnd
    \/ \E value \in ConsoleSliderValues : SpeedSliderInput(value)
    \/ \E key \in CruiseKeys : handleKeyDown(key)
    \/ \E key \in CruiseKeys : handleKeyUp(key)
    \/ \E d \in Directions : controlButtonPress(d)
    \/ \E outcome \in Outcomes : MovementResponse(outcome)
    \/ toggleVoiceRecognition
    \/ \E command \in CruiseCommands : RecognitionTimer(command)
    \/ \E command \in CruiseCommands, outcome \in Outcomes :
           VoiceResponse(command, outcome)
    \/ AutoStopTimer

CruiseSpec == ButtonsInit /\ [][CruiseNext]_vars

\* ------------------------------------------------------------------ claims
\* The motion state the claims speak of: the direction is that of the last
\* command handed to the Motion Service, the angle and the magnitude are
\* those the joystick stores.
direction == lastCmd.direction
angle == currentMovement.angle
magnitude == currentMovement.distance

\* The movement commands the last handler issued.
commandsIssued == SelectSeq(emitted, LAMBDA r : r.endpoint = "/movement")

\* C1: after a joystick release (handleEnd while a drag is active) the
\* motion state is direction = stop, angle = 0, magnitude = 0, whatever
\* moves the drag was made of.
C1_ReleaseResetsMotion ==
    [][(isDragging /\ last'.op = "end")
         => (direction' = "stop" /\ angle' = 0 /\ magnitude' = 0
             /\ ~isDragging')]_vars

\* C1 witness: a release that followed a move off the centre.
C1_Witness ==
    /\ last.op = "end" /\ last.arg = "deflected"
    /\ direction = "stop" /\ angle = 0 /\ magnitude = 0

\* C2: a release while a drag is active issues exactly one stop command,
\* whatever is in flight, and a release with no drag active issues none.
C2_OneStopPerRelease ==
    [][last'.op = "end"
         => IF isDragging
            THEN emitted' = << MovementRequest("stop", 0) >>
                 /\ pendingMovement' = pendingMovement + 1
            ELSE emitted' = << >> /\ pendingMovement' = pendingMovement]_vars

\* C2 witness: a release with no drag active, right after the release that
\* ended a drag, while that drag's stop is still in flight.
C2_Witness ==
    /\ last.op = "end" /\ last.arg = "ignored"
    /\ direction = "stop" /\ lastCmd.speed = 0
    /\ pendingMovement = MaxInFlight
    /\ emitted = << >>

\* C3: K1 is pressed, then another directional key K2, then K1 is released
\* while K2 is held: the direction remains K2's and that key-up issues no
\* stop command.
C3_StaleKeyUpKeepsDirection ==
    [][\A k1, k2 \in ArrowKeys :
          (/\ k1 # k2 /\ k1 \in held /\ k2 \in held /\ focus = "BODY"
           /\ last.op = "keydown" /\ last.arg = k2
           /\ last'.op = "keyup" /\ last'.arg = k1)
          => (direction' = KeyDirection(k2) /\ commandsIssued' = << >>)]_vars

\* C4: a key-down repeated for a directional key that is still held issues
\* no further command and leaves the motion state unchanged.
C4_RepeatedKeyDownIdempotent ==
    [][\A k \in ArrowKeys :
          (/\ k \in held
           /\ last.op = "keydown" /\ last.arg = k
           /\ last'.op = "keydown" /\ last'.arg = k)
          => (/\ commandsIssued' = << >>
              /\ UNCHANGED << lastCmd, globalMovement, currentMovement >>)]_vars

C6_VoiceMovementIssuesCommand ==
    (last.op = "voice-execute"
        /\ last.arg \in { "forward", "backward", "left", "right" })
    => (/\ Len(commandsIssued) = 1
        /\ commandsIssued[1].direction = last.arg
        /\ autoStopTimers > 0)

\* C7: whenever the motion direction is stop, the stored joystick angle and
\* magnitude are both 0, whichever entry point produced the stop.
C7_StopMeansZeroVector ==
    direction = "stop" => (angle = 0 /\ magnitude = 0)

\* C8: last writer wins.  Every handler issues at most one command; the
\* direction after a handler that wrote one is the direction of that
\* handler's own event (its key, its release, the angle it stored),
\* whatever was in force before, and a handler that wrote none leaves the
\* direction as it was.
C8_LastWriterWins ==
    [][/\ Len(emitted') <= 1
       /\ (commandsIssued' = << >> => lastCmd' = lastCmd)
       /\ (commandsIssued' # << >>
             => lastCmd' = Cmd(commandsIssued'[1].direction,
                               commandsIssued'[1].speed))
       /\ (last'.op = "keydown" /\ last'.arg # "ignored"
             => direction' = KeyDirection(last'.arg))
       /\ (last'.op \in { "keyup", "end" } /\ last'.arg # "ignored"
             => direction' = "stop")
       /\ (last'.op = "start" \/ (last'.op = "move" /\ last'.arg # "ignored")
             => direction' = Classify(angle'))]_vars

\* C8 witness: a key-down wrote left over a drag that keeps the stick
\* deflected to the right, with a voice request in flight.
C8_Witness ==
    /\ last.op = "keydown" /\ last.arg = "ArrowLeft"
    /\ isDragging /\ magnitude > 0 /\ Classify(angle) = "right"
    /\ direction = "left"
    /\ BagCardinality(voicePending) > 0

\* A step that writes a direction: the global record of setMovement, the
\* joystick's angle, or the start or end of a drag.
DirectionWritten ==
    \/ globalMovement' # globalMovement
    \/ angle' # angle
    \/ isDragging' # isDragging
SpeedPercentChanged == currentMovement'.speed # currentMovement.speed
\* A handler that returns at its guard, or that only logs a response.
NothingWritten == last'.arg = "ignored" \/ last'.op = "response"

\* C9 as stated: every state mutation that changes direction or
\* speedPercent triggers exactly one command, and a handler that writes no
\* motion state triggers none.
C9_EveryChangeOneCommand ==
    [][/\ (DirectionWritten \/ SpeedPercentChanged)
             => Len(commandsIssued') = 1
       /\ NothingWritten => commandsIssued' = << >>]_vars

\* C9 amended: a change of direction triggers exactly one command, and so
\* does a change of speedPercent while the stored magnitude is above 0; a
\* change of speedPercent at magnitude 0 triggers none, and neither does a
\* handler that writes no motion state.
C9_ChangeOneCommandUnlessIdleSpeed ==
    [][/\ DirectionWritten => Len(commandsIssued') = 1
       /\ (SpeedPercentChanged /\ magnitude' > 0) => Len(commandsIssued') = 1
       /\ (SpeedPercentChanged /\ magnitude' = 0) => commandsIssued' = << >>
       /\ NothingWritten => commandsIssued' = << >>]_vars

\* C9 witness: the slider was moved with the stick at rest, and nothing was
\* sent.
C9_Witness ==
    /\ last.op = "slider" /\ magnitude = 0
    /\ currentMovement.speed # sliderInitial
    /\ emitted = << >>

\* C10: when a Motion Service call fails, the motion state stays as the
\* input handler wrote it, the failure is logged, and no request is issued
\* for that command again.
C10_FailureLeavesState ==
    [][(last'.op = "response")
         => (/\ UNCHANGED << isDragging, currentMovement, globalMovement,
                             speedSlider, lastCmd, highlight >>
             /\ emitted' = << >>
             /\ InFlight' = InFlight - 1)]_vars

\* C10 witness: the call for a left command has failed; left is still the
\* direction and nothing is in flight.
C10_Witness ==
    /\ last = Ran("response", "error", FALSE)
    /\ direction = "left" /\ globalMovement.direction = "left"
    /\ InFlight = 0

\* C11: a command that supersedes another is transmitted as well and is not
\* held back by the response still awaited: a handler that issues a command
\* adds its request to those in flight, whatever their number, and the
\* joystick's handler can run whenever the bound on requests leaves room.
C11_SupersedingCommandNotHeldBack ==
    /\ [](InFlight < MaxInFlight => ENABLED handleStart(<< 40, 0 >>))
    /\ [][/\ commandsIssued' # << >>
            => (/\ Len(commandsIssued') = 1
                /\ pendingMovement' = pendingMovement + 1)
       /\ last'.op \notin { "response", "voice-response", "voice-execute",
                            "map-response" }
            => InFlight' >= InFlight]_vars

\* C11 witness: a key-down wrote left during a drag and as many commands are
\* in flight as the bound allows: none waited for another's response.
C11_Witness ==
    /\ last.op = "keydown" /\ direction = "left" /\ isDragging
    /\ emitted = << MovementRequest("left", speedSlider) >>
    /\ pendingMovement = MaxInFlight

\* C12: callApi never rejects: a failed fetch, a non-OK status and an
\* unparsable body each come back as {success: false, error: <message>},
\* and no handler that awaits callApi sees a rejection.
C12_CallApiNeverRejects ==
    /\ last.op \in { "response", "voice-response", "map-response" }
          => ~last.threw
    /\ \A outcome \in Outcomes :
          /\ ~callApi(outcome).rejected
          /\ outcome \in { "network_error", "http_error", "bad_json" }
                => (~callApi(outcome).success /\ callApi(outcome).error # "")

\* C12 witness: a Motion Service call has failed and its handler went on
\* with the value {success: false}.
C12_Witness ==
    /\ last = Ran("response", "error", FALSE)
    /\ pendingMovement = 0 /\ direction = "stop"

\* The last handler was a start or a move of a drag: it stored the offset's
\* angle and magnitude and dispatched a command.
Tracked == last.op \in { "start", "move" } /\ last.arg # "ignored"

\* C13: a joystick offset at distance 0 from the origin is classified stop
\* with magnitude 0; no other direction is dispatched for it.
C13_ZeroOffsetIsStop ==
    (Tracked /\ magnitude = 0) => (direction = "stop" /\ lastCmd.speed = 0)

\* The angles, in whole degrees, of each bucket as C14 lists them.
Bucket(d) ==
    CASE d = "right" -> { a \in -179 .. 180 : a > -45 /\ a <= 45 }
      [] d = "backward" -> { a \in -179 .. 180 : a > 45 /\ a <= 135 }
      [] d = "left" -> { a \in -179 .. 180 : a > 135 \/ a <= -135 }
      [] d = "forward" -> { a \in -179 .. 180 : a > -135 /\ a <= -45 }

C15_BoundaryInBucketAbove ==
    (Tracked /\ magnitude > 0)
    => (/\ angle = 45 => direction = "backward"
        /\ angle = 135 => direction = "left"
        /\ angle = -135 => direction = "forward"
        /\ angle = -45 => direction = "right")

\* C15 amended: an angle of exactly 45 degrees is classified right, and
\* each boundary angle belongs to the bucket it is the upper edge of.
C15_BoundaryInBucketBelow ==
    (Tracked /\ magnitude > 0)
    => (/\ angle = 45 => direction = "right"
        /\ angle = 135 => direction = "backward"
        /\ angle = -135 => direction = "left"
        /\ angle = -45 => direction = "forward")

\* C15 witness: a move along the diagonal at 45 degrees, dispatched as right.
C15_Witness ==
    /\ last.op = "move" /\ last.arg # "ignored"
    /\ angle = 45 /\ magnitude > 0 /\ direction = "right"

\* C16: the speed n dispatched by a start or a move is speedPercent times
\* min(distance, R) / R, rounded: n - 1/2 <= speedPercent * d / R < n + 1/2,
\* compared in squares; at the radius and beyond it n is speedPercent.
C16_DispatchedSpeedIsScaled ==
    Tracked
    => LET n == lastCmd.speed
           reach == 4 * currentMovement.speed * currentMovement.speed * magnitude
       IN  /\ emitted = << MovementRequest(direction, n) >>
           /\ n >= 0
           /\ (2 * maxDistance * n + maxDistance)
                 * (2 * maxDistance * n + maxDistance) > reach
           /\ n = 0 \/ (2 * maxDistance * n - maxDistance)
                          * (2 * maxDistance * n - maxDistance) <= reach
           /\ magnitude = maxDistance * maxDistance
                 => n = currentMovement.speed

\* C16 witness: the slider at 80 and a move to offset (40, 0): right at 64.
C16_Witness ==
    /\ last.op = "move" /\ last.arg # "ignored"
    /\ currentMovement.speed = 80 /\ magnitude = 40 * 40 /\ angle = 0
    /\ emitted = << MovementRequest("right", 64) >>

\* C17: every request sent to the Motion Service carries one of the five
\* directions and a whole speed from 0 to 100.
C17_RequestsInRange ==
    /\ \A i \in 1 .. Len(commandsIssued) :
          /\ commandsIssued[i].direction \in Directions
          /\ commandsIssued[i].speed \in 0 .. 100
    /\ lastCmd # NoCmd
          => (lastCmd.direction \in Directions /\ lastCmd.speed \in 0 .. 100)

\* C17 witness: the slider at its maximum and the stick beyond the radius:
\* the speed dispatched is 100.
C17_Witness ==
    /\ Tracked /\ speedSlider = 100
    /\ emitted = << MovementRequest("left", 100) >>

\* The step executes the utterance c: its Voice Service call succeeded.
Executes(c) ==
    /\ BagIn(c, voicePending)
    /\ voicePending' = voicePending (-) SetToBag({c})
    /\ last'.op = "voice-execute"

\* The place an utterance of the form "go to <place>" names, as the value
\* its option has in #destination-select.
spokenPlace ==
    [c \in Utterances |->
        CASE c = "go to the kitchen" -> "kitchen"
          [] c = "go to the garage" -> "garage"
          [] OTHER -> ""]

\* The navigate requests among those the last handler started.
navigateRequests == SelectSeq(emitted, LAMBDA r : r.action = "navigate")

RuleTable ==
    << [keywords |-> { "forward", "ahead" }, rule |-> "forward"],
       [keywords |-> { "left" }, rule |-> "left"],
       [keywords |-> { "right" }, rule |-> "right"],
       [keywords |-> { "back" }, rule |-> "backward"],
       [keywords |-> { "stop" }, rule |-> "stop"],
       [keywords |-> { "go to" }, rule |-> "navigate"],
       [keywords |-> { "start mapping" }, rule |-> "start-mapping"],
       [keywords |-> { "save map", "save the map" }, rule |-> "save-map"],
       [keywords |-> { "load map", "load the map" }, rule |-> "load-map"] >>
RuleMatches(c, i) ==
    \E k \in RuleTable[i].keywords : includes(toLowerCase(c), k)
firstRuleOf ==
    [c \in Utterances |->
        IF \E i \in 1 .. Len(RuleTable) : RuleMatches(c, i)
        THEN RuleTable[CHOOSE i \in 1 .. Len(RuleTable) :
                          /\ RuleMatches(c, i)
                          /\ \A j \in 1 .. (i - 1) : ~RuleMatches(c, j)].rule
        ELSE "none"]

\* C20: of the rules an utterance matches only the first in the table's
\* order fires: a movement rule that matches leaves the destination and the
\* Mapping Service alone even if "go to" matches as well, and no utterance
\* starts more than one request.
C20_FirstMatchingRuleOnly ==
    [][\A c \in Utterances :
          Executes(c)
          => (/\ last'.arg = firstRuleOf[c]
              /\ Len(emitted') <= 1
              /\ firstRuleOf[c] \in Directions
                    => (emitted' = << >>
                        /\ destinationSelect' = destinationSelect)
              /\ firstRuleOf[c] = "navigate"
                    => navigateRequests' = emitted'
              /\ firstRuleOf[c] = "save-map"
                    => emitted' = << MapRequest("POST", "save", "") >>)]_vars

\* C20 witness: "go to the kitchen and come back" was executed by the rule
\* of "back"; nothing was sent to the Mapping Service and no destination
\* was selected.
C20_Witness ==
    /\ last.op = "voice-execute" /\ last.arg = "backward"
    /\ emitted = << >> /\ destinationSelect = "" /\ pendingMap = 0

\* The utterances of the recognition timer that match no rule of the table.
unmatched ==
    { c \in commands : \A i \in 1 .. Len(RuleTable) : ~RuleMatches(c, i) }

\* C21: executing an utterance that matches no rule leaves the motion state,
\* the selected destination and the map panel as they were, starts no
\* request and schedules no auto-stop timer.
C21_UnmatchedUtteranceChangesNothing ==
    [][\A c \in unmatched :
          Executes(c)
          => (/\ emitted' = << >>
              /\ UNCHANGED << isDragging, currentMovement, globalMovement,
                              speedSlider, lastCmd, highlight, pendingMovement,
                              destinationSelect, destinationOptions,
                              pendingNames, pendingMap, autoStopTimers >>)]_vars

\* C21 witness: "what is your battery level" was executed during a drag,
\* after "go to the kitchen" had selected a destination.
C21_Witness ==
    /\ last.op = "voice-execute" /\ last.arg = "none"
    /\ isDragging /\ direction = "right" /\ destinationSelect = "kitchen"
    /\ emitted = << >>

\* The step is the rest of processVoiceCommand for the utterance c, whatever
\* the Voice Service answered.
Answered(c) ==
    /\ BagIn(c, voicePending)
    /\ voicePending' = voicePending (-) SetToBag({c})

\* C22: the intent an utterance matches is executed whether its Voice
\* Service call succeeds or fails: "save the map" starts the save request
\* and "go to the kitchen" the navigate request in either case.
C22_DispatchDecoupledFromVoiceService ==
    [][/\ Answered("save the map")
            => emitted' = << MapRequest("POST", "save", "") >>
       /\ Answered("go to the kitchen")
            => emitted' = << MapRequest("POST", "navigate", "kitchen") >>]_vars

C25_KeysInFormControlsLeftAlone ==
    [][(focus \in FormTags /\ last'.op \in { "keydown", "keyup" })
         => (/\ commandsIssued' = << >>
             /\ UNCHANGED << isDragging, currentMovement, globalMovement,
                             lastCmd, highlight >>
             /\ ~last'.prevented)]_vars

\* The step is a first key-down of k, or the key-up of k.
Pressed(k) == last'.op = "keydown" /\ k \notin held /\ k \in held'
Released(k) == last'.op = "keyup" /\ k \in held /\ k \notin held'

\* The direction C26 gives each key.
keyTable ==
    [k \in ArrowKeys \cup { " " } |->
        CASE k = "ArrowUp" -> "forward" [] k = "ArrowDown" -> "backward"
          [] k = "ArrowLeft" -> "left" [] k = "ArrowRight" -> "right"
          [] k = " " -> "stop"]

\* C26: outside form controls a key-down of an arrow key or of the space
\* key sets the key's direction and dispatches it with the cruise
\* speedPercent, whatever magnitude the joystick stores; a key-down of any
\* other key issues no command.
C26_KeyDownDispatchesCruiseSpeed ==
    [][\A k \in KeyboardKeys :
          (Pressed(k) /\ focus \notin FormTags)
          => IF k \in DOMAIN keyTable
             THEN /\ direction' = keyTable[k]
                  /\ commandsIssued'
                       = << MovementRequest(keyTable[k], speedSlider) >>
             ELSE commandsIssued' = << >> /\ lastCmd' = lastCmd]_vars

\* C26 witness: ArrowDown was pressed during a drag at magnitude 0.8 with
\* the slider at 80: backward is dispatched at 80.
C26_Witness ==
    /\ last.op = "keydown" /\ last.arg = "ArrowDown"
    /\ isDragging /\ magnitude = 40 * 40 /\ speedSlider = 80
    /\ emitted = << MovementRequest("backward", 80) >>

IsRounded(n, speed, d2) ==
    /\ n >= 0
    /\ (2 * maxDistance * n + maxDistance) * (2 * maxDistance * n + maxDistance)
         > 4 * speed * speed * d2
    /\ n = 0 \/ (2 * maxDistance * n - maxDistance)
                   * (2 * maxDistance * n - maxDistance)
                 <= 4 * speed * speed * d2

\* C28: a slider change while no drag is active only updates the cruise
\* speedPercent: no command, and direction, angle and magnitude as before.
C28_IdleSliderOnlyStoresSpeed ==
    [][(last'.op = "slider" /\ ~isDragging)
         => (/\ commandsIssued' = << >>
             /\ currentMovement'.speed = speedSlider'
             /\ UNCHANGED << lastCmd, angle, magnitude, globalMovement,
                             isDragging, pendingMovement >>)]_vars

\* C28 witness: the slider was moved to 80 while a key holds the direction
\* left and no drag is active; nothing was sent.
C28_Witness ==
    /\ last.op = "slider" /\ ~isDragging /\ direction = "left"
    /\ currentMovement.speed = 80 /\ emitted = << >>

C30_OneCommandPerTrackedEvent ==
    [][/\ last'.op \in { "start", "move" }
            => IF isDragging \/ last'.op = "start"
               THEN /\ Len(commandsIssued') = 1
                    /\ commandsIssued'[1].direction = Classify(angle')
                    /\ IsRounded(commandsIssued'[1].speed,
                                 currentMovement'.speed, magnitude')
                    /\ pendingMovement' = pendingMovement + 1
               ELSE /\ commandsIssued' = << >>
                    /\ UNCHANGED << currentMovement, lastCmd, pendingMovement >>
       /\ last'.op = "start" => isDragging']_vars

\* C30 witness: a move up the screen dispatched forward while the commands
\* of the events before it are still in flight.
C30_Witness ==
    /\ last.op = "move" /\ last.arg # "ignored"
    /\ angle = -90 /\ emitted = << MovementRequest("forward", 30) >>
    /\ pendingMovement = MaxInFlight

RaceResolved ==
    \/ (last.op = "keyup" /\ last.arg # "ignored"
          /\ isDragging /\ last'.op = "end")
    \/ (last.op = "end" /\ last.arg # "ignored"
          /\ last'.op = "keyup" /\ last'.arg # "ignored")

\* C31 as stated: after a key-up and a joystick release, in either order,
\* the motion state is stop with angle 0 and magnitude 0 and the last
\* command is the same stop command: the second event's stop has the
\* direction and the speed of the first's.
C31_RaceSameStopCommand ==
    [][RaceResolved
         => (/\ direction' = "stop" /\ angle' = 0 /\ magnitude' = 0
             /\ ~isDragging'
             /\ lastCmd' = lastCmd)]_vars

\* C31 amended: in either order the motion state is stop with angle 0 and
\* magnitude 0 and the last command's direction is stop; its speed is 0
\* when the release came last and the slider's speedPercent when the key-up
\* came last.
C31_RaceResolvesToStop ==
    [][RaceResolved
         => (/\ direction' = "stop" /\ angle' = 0 /\ magnitude' = 0
             /\ ~isDragging'
             /\ lastCmd' = Cmd("stop", IF last'.op = "end" THEN 0
                                       ELSE speedSlider))]_vars

\* C31 witness: the release of a drag off the centre came right after the
\* stop of a key-up, with the slider at 80; both stops are in flight and the
\* last one carries speed 0.
C31_Witness ==
    /\ last.op = "end" /\ last.arg = "deflected"
    /\ globalMovement.direction = "stop" /\ globalMovement.speed = 80
    /\ held = {} /\ speedSlider = 80
    /\ lastCmd = Cmd("stop", 0) /\ pendingMovement = MaxInFlight
    /\ angle = 0 /\ magnitude = 0 /\ ~isDragging

\* C32: when the gesture of an active drag is lost with no mouseup or
\* touchend delivered, the drag ends: dragging becomes false and a stop
\* command is issued.
C32_LostGestureStops ==
    [][(isDragging /\ last'.op = "touchcancel")
         => (/\ ~isDragging'
             /\ Len(commandsIssued') = 1
             /\ commandsIssued'[1].direction = "stop"
             /\ direction' = "stop")]_vars

\* The text is empty or white space only.
Blank(value) ==
    \A i \in 1 .. Len(value) : SubSeq(value, i, i) \in { " ", "\t", "\n" }

\* The step is a click on Navigate with no destination selected, or a
\* click on Name Area with a blank name typed.
RefusedLocally ==
    \/ last'.op = "navigate-click" /\ destinationSelect = ""
    \/ last'.op = "name" /\ Blank(last'.arg)

\* C33: starting navigation with no destination selected, or naming a
\* location with an empty or white-space-only name, starts no request and
\* leaves the destination list, the selection, the requests in flight and
\* the motion state as they were.
C33_AmbiguousInputRefused ==
    [][RefusedLocally
         => (/\ emitted' = << >>
             /\ UNCHANGED << destinationOptions, destinationSelect,
                             pendingMap, pendingNames, voicePending,
                             motionVars, autoStopTimers >>)]_vars

\* C33 witness: a name of two spaces was refused while a name_location
\* request for "Garage" is in flight; nothing was started.
C33_Witness ==
    /\ last.op = "name" /\ last.arg = "  "
    /\ emitted = << >>
    /\ pendingNames = SetToBag({ "Garage" })
    /\ destinationOptions = staticOptions

\* The cruise speedPercent: the speed the joystick's movement record stores.
speedPercent == currentMovement.speed

\* C34: the cruise speedPercent is the slider's value and only the slider's
\* listener changes it: a joystick start, move or release, a key-down or
\* key-up, a button press, a voice command, a timer and a response all
\* leave it as it was; a stop does not reset it.
C34_OnlySliderChangesSpeedPercent ==
    /\ [](speedPercent = speedSlider)
    /\ [][IF last'.op = "slider"
           THEN speedPercent' = speedSlider' /\ speedPercent' # speedPercent
           ELSE speedPercent' = speedPercent /\ speedSlider' = speedSlider]_vars

\* C34 witness: the slider was set to 100 and a drag was released: the stop
\* went out with speed 0 and the cruise speedPercent is still 100.
C34_Witness ==
    /\ last.op = "end" /\ last.arg = "deflected"
    /\ lastCmd = Cmd("stop", 0)
    /\ speedPercent = 100 /\ speedSlider = 100

\* C35: executing "start mapping" starts a Mapping Service request with
\* action start, "save the map" one with action save, and "load the map" a
\* request that loads the map.
C35_MappingUtterancesStartRequests ==
    [][/\ Executes("start mapping")
            => emitted' = << MapRequest("POST", "start", "") >>
       /\ Executes("save the map")
            => emitted' = << MapRequest("POST", "save", "") >>
       /\ Executes("load the map")
            => emitted' = << MapRequest("GET", "", "") >>]_vars

\* C36: the completion of a Motion Service call, with any outcome and in
\* any order among the calls in flight, changes no field of the motion
\* state and starts no request; it only takes its call out of those in
\* flight.
C36_ResponsesWriteNoMotionState ==
    /\ [](pendingMovement > 0
            => \A outcome \in Outcomes : ENABLED MovementResponse(outcome))
    /\ [][last'.op = "response"
            => (/\ UNCHANGED << isDragging, currentMovement, globalMovement,
                                speedSlider, highlight, held, focus, lastCmd >>
                /\ emitted' = << >>
                /\ pendingMovement' = pendingMovement - 1
                /\ UNCHANGED voiceVars)]_vars

\* C36 witness: a call succeeded while a drag holds the stick to the right
\* and a later command is still in flight; the drag and its vector stand.
C36_Witness ==
    /\ last = Ran("response", "ok", FALSE)
    /\ isDragging /\ magnitude = 40 * 40 /\ direction = "right"
    /\ pendingMovement = 1 /\ emitted = << >>

\* C37: in every reachable state a stored magnitude above 0 implies that a
\* drag is active.
C37_MagnitudeOnlyWhileDragging ==
    magnitude > 0 => isDragging

\* C37 witness: the slider's listener found a magnitude above 0, during a
\* drag beyond the radius to the left, and sent left at the new speed.
C37_Witness ==
    /\ last.op = "slider" /\ isDragging
    /\ magnitude = maxDistance * maxDistance
    /\ emitted = << MovementRequest("left", 100) >>

\* C38: every command is handed to the Motion Service inside the handler
\* that issued it, in the order of issue: the request a handler starts is
\* that of the command it issued, one request joins those in flight, and a
\* step that issues no command starts none; so the request started by a
\* release of a drag or by a key-up that stops is the stop, the last one
\* started.  Responses start no request.
C38_RequestsStartedInOrderOfIssue ==
    [][/\ lastCmd' # lastCmd => commandsIssued' # << >>
       /\ commandsIssued' # << >>
            => (/\ Len(commandsIssued') = 1
                /\ lastCmd' = Cmd(commandsIssued'[1].direction,
                                  commandsIssued'[1].speed)
                /\ pendingMovement' = pendingMovement + 1)
       /\ commandsIssued' = << >> => pendingMovement' <= pendingMovement
       /\ (last'.op \in { "end", "keyup" } /\ last'.arg # "ignored")
            => (/\ commandsIssued' # << >>
                /\ commandsIssued'[Len(commandsIssued')].direction = "stop"
                /\ direction' = "stop")
       /\ last'.op = "response" => emitted' = << >>]_vars

\* C38 witness: the key-up of ArrowUp started the stop while the request of
\* its key-down is still in flight; the stop is the last request started.
C38_Witness ==
    /\ last.op = "keyup" /\ last.arg = "ArrowUp"
    /\ emitted = << MovementRequest("stop", speedSlider) >>
    /\ lastCmd = Cmd("stop", speedSlider)
    /\ pendingMovement = MaxInFlight /\ held = {}

\* C39: the speed of a stop depends on the adapter that issued it: the stop
\* of a joystick release carries speed 0, the stop of setMovement (the space
\* key, the key-up of a directional key) carries the slider's speedPercent.
C39_StopSpeedDependsOnAdapter ==
    [][/\ (last'.op = "end" /\ last'.arg # "ignored")
            => commandsIssued' = << MovementRequest("stop", 0) >>
       /\ (last'.op = "keyup" /\ last'.arg # "ignored")
            => commandsIssued' = << MovementRequest("stop", speedPercent) >>
       /\ (last'.op = "keydown" /\ last'.arg = " ")
            => commandsIssued' = << MovementRequest("stop", speedPercent) >>]_vars

\* C39 witness: the space key was pressed with the slider at 80 and no drag
\* active: the stop went out with speed 80.
C39_Witness ==
    /\ last.op = "keydown" /\ last.arg = " "
    /\ ~isDragging /\ magnitude = 0 /\ speedPercent = 80
    /\ emitted = << MovementRequest("stop", 80) >>

\* C40: at the end of every handler isListening holds if and only if
\* exactly one recognition timer is pending.  A click on the voice button
\* while listening cancels that timer and processes no utterance; with no
\* timer pending none can be processed; the timer that fires processes one
\* utterance and ends the session, so a session processes at most one.
C40_ListeningIffOneTimerPending ==
    /\ [](isListening <=> recognitionTimeout = 1)
    /\ [](~isListening
            => \A command \in Utterances : ~ENABLED RecognitionTimer(command))
    /\ [][/\ (isListening /\ last'.op = "voice-click")
               => (/\ ~isListening' /\ recognitionTimeout' = 0
                   /\ voicePending' = voicePending /\ emitted' = << >>)
          /\ last'.op = "voice-timer"
               => (/\ isListening /\ ~isListening' /\ recognitionTimeout' = 0
                   /\ BagCardinality(voicePending')
                        = BagCardinality(voicePending) + 1
                   /\ Len(emitted') = 1
                   /\ emitted'[1].endpoint = "/voice")]_vars

\* C40 witness: the voice button was clicked while listening, with the
\* utterance of the session before still awaiting the Voice Service: the
\* timer is cancelled and nothing more is processed.
C40_Witness ==
    /\ last.op = "voice-click" /\ ~isListening /\ recognitionTimeout = 0
    /\ BagCardinality(voicePending) = 1 /\ emitted = << >>

====
